---- MODULE Spec2Model ----
(***************************************************************************)
(* Model of excel_summary_19.py: a Streamlit script that loads a price     *)
(* table (PDF extraction or manual upload), lets the user edit it, renders *)
(* a grouped HTML preview and exports a workbook with formulas.            *)
(*                                                                         *)
(* Money: a price is an integer number of cents.  A value computed with    *)
(* the tax factor is kept exactly, in 1/100 cent (price * 100 is a price   *)
(* in that unit); the two-decimal formats round such a value to cents.     *)
(* A tax rate is kept as its percentage (12 stands for 0.12).              *)
(***************************************************************************)
EXTENDS Integers, Sequences, FiniteSets, TLC

VARIABLES
    df,                 \* st.session_state.df
    job_flags,          \* st.session_state.current_job_path / job_loaded_from_queue
    pdfs,               \* number of files held by the PDF uploader
    uploaded_file,      \* content of the manual-override uploader
    tax_percent,        \* value of the tax number_input
    pc,                 \* position of the script run
    process_clicked,    \* the "Process PDFs" button is True in this run
    generate_clicked,   \* the "Generate Excel File" button is True in this run
    pending_edit,       \* the table the user typed into the data editor
    requests_sent,      \* requests.post calls made in this run
    run_result,         \* how the current/last run ended
    after_extraction,   \* this run is the st.rerun() issued by a successful extraction
    extracted,          \* the table the last successful extraction produced
    df_at_start,        \* session df / flags when the run started
    editor_shown,       \* the table st.data_editor displayed in this run
    preview,            \* what the preview section showed in this run
    ws,                 \* the worksheet built by the export handler
    download            \* a download button with a workbook was offered

vars == << df, job_flags, pdfs, uploaded_file, tax_percent, pc, process_clicked,
           generate_clicked, pending_edit, requests_sent, run_result,
           after_extraction, extracted, df_at_start, editor_shown, preview, ws,
           download >>

(***************************************************************************)
(* Tables                                                                  *)
(***************************************************************************)
NaN == "<NaN>"      \* pandas' missing value (NaN / None)

RequiredColumns ==
    {"type", "supplier", "brand", "code", "description", "Power Type", "price"}

TextColumns == {"type", "supplier", "brand", "code", "description", "Power Type"}

MkRow(t, s, b, c, d, p, pr) ==
    [type |-> t, supplier |-> s, brand |-> b, code |-> c, description |-> d,
     power_type |-> p, price |-> pr]

NoneDf == [kind |-> "None", columns |-> {}, rows |-> << >>]

DataFrame(cols, rows) == [kind |-> "DataFrame", columns |-> cols, rows |-> rows]

\* DataFrame.empty: no rows or no columns
IsEmpty(d) == d.rows = << >> \/ d.columns = {}

(***************************************************************************)
(* Sequence helpers (pandas / Python built-ins)                            *)
(***************************************************************************)
RECURSIVE Unique(_)
\* Series.unique() / drop_duplicates(): first occurrences, in order
Unique(s) ==
    IF s = << >> THEN << >>
    ELSE << Head(s) >> \o SelectSeq(Unique(Tail(s)), LAMBDA x : x # Head(s))

Map(s, F(_)) == [i \in 1..Len(s) |-> F(s[i])]

RECURSIVE SumSeq(_)
SumSeq(s) == IF s = << >> THEN 0 ELSE Head(s) + SumSeq(Tail(s))

Range(s) == {s[i] : i \in 1..Len(s)}

\* f"{x:,.2f}": an exact value in 1/100 cent shown with two decimals, in cents
Fmt2(x) == (x + 50) \div 100

\* pandas' ==: a missing value equals nothing
EqVal(a, b) == a # NaN /\ b # NaN /\ a = b

IsBlank(v) == v = NaN \/ v = ""

(***************************************************************************)
(* generate_html_table                                                     *)
(***************************************************************************)
\* rows that open a group
main_items(d) ==
    SelectSeq(d.rows, LAMBDA r : r.type = "item" /\ ~IsBlank(r.power_type))

\* the (code, Power Type) pairs the loop visits, in order
group_keys(d) == Unique(Map(main_items(d), LAMBDA r : << r.code, r.power_type >>))


\* a grouping that leaves rows with a blank Power Type out
items_for_code_no_blank(d, code, power_type) ==
    SelectSeq(d.rows, LAMBDA r :
        /\ EqVal(r.code, code)
        /\ EqVal(r.power_type, power_type)
        /\ r.type \in {"item", "subitem"})

items_for_code(d, code, power_type) ==
    SelectSeq(d.rows, LAMBDA r :
        /\ EqVal(r.code, code)
        /\ (EqVal(r.power_type, power_type) \/ IsBlank(r.power_type))
        /\ r.type \in {"item", "subitem"})

suppliers_of(items) == Unique(Map(items, LAMBDA r : r.supplier))

descriptions_of(items) == Unique(Map(items, LAMBDA r : r.description))

\* items_for_code[items_for_code["type"] == "item"]; .iloc[0] needs one
item_rows_of(items) == SelectSeq(items, LAMBDA r : r.type = "item")


\* a lookup that takes the last matching row
html_price_last(items, s, desc) ==
    LET row == SelectSeq(items, LAMBDA r :
                   EqVal(r.supplier, s) /\ EqVal(r.description, desc))
    IN  IF row # << >> THEN row[Len(row)].price ELSE 0

\* the price shown for (supplier, description): first matching row, else 0
html_price(items, s, desc) ==
    LET row == SelectSeq(items, LAMBDA r :
                   EqVal(r.supplier, s) /\ EqVal(r.description, desc))
    IN  IF row # << >> THEN row[1].price ELSE 0

\* totals[s] once the first row and the remaining rows have been added
html_totals(items, suppliers, descriptions) ==
    [i \in 1..Len(suppliers) |->
        html_price(items, suppliers[i], descriptions[1])
        + SumSeq(Map(Tail(descriptions),
                     LAMBDA desc : html_price(items, suppliers[i], desc)))]

\* total = totals[s] * (1 + tax_rate), in 1/100 cent
html_total(subtotal, tax) == subtotal * (100 + tax)

html_line(items, suppliers, desc) ==
    [qty |-> 1, desc |-> desc,
     cells |-> Map(suppliers, LAMBDA s : Fmt2(html_price(items, s, desc) * 100))]

\* one <table>: header, identity cell, item rows, tax row, total row
html_group(d, code, power_type, tax) ==
    LET items == items_for_code(d, code, power_type)
        suppliers == suppliers_of(items)
        descriptions == descriptions_of(items)
        totals == html_totals(items, suppliers, descriptions)
    IN  [header |-> << "Details", "", "QTY", "Items" >> \o suppliers,
         brand |-> item_rows_of(items)[1].brand,
         code |-> code,
         power_type |-> power_type,
         rowspan |-> Len(descriptions) + 2,
         lines |-> Map(descriptions, LAMBDA desc : html_line(items, suppliers, desc)),
         tax |-> Map(suppliers, LAMBDA s : tax),
         total |-> [i \in 1..Len(suppliers) |-> Fmt2(html_total(totals[i], tax))],
         items |-> items]      \* the rows the table was built from (not rendered)

\* the exception the grouping loop raises on d, "" when it raises none
loop_raises(d) ==
    IF ~({"type", "Power Type", "code"} \subseteq d.columns) THEN "KeyError"
    ELSE IF group_keys(d) = << >> THEN ""
    ELSE IF ~({"supplier", "brand", "description", "price"} \subseteq d.columns)
         THEN "KeyError"
    ELSE IF \E i \in 1..Len(group_keys(d)) :
                item_rows_of(items_for_code(d, group_keys(d)[i][1],
                                            group_keys(d)[i][2])) = << >>
         THEN "IndexError"
    ELSE ""

generate_html_table(d, tax) ==
    IF loop_raises(d) # ""
    THEN [raised |-> loop_raises(d), tables |-> << >>]
    ELSE [raised |-> "",
          tables |-> Map(group_keys(d),
                         LAMBDA k : html_group(d, k[1], k[2], tax))]

(***************************************************************************)
(* Worksheet cells (openpyxl)                                              *)
(***************************************************************************)
ColLetters == << "A", "B", "C", "D", "E", "F", "G", "H", "I", "J", "K", "L", "M" >>

get_column_letter(i) == ColLetters[i]

\* the column a letter in a formula refers to
column_index(l) == CHOOSE i \in 1..Len(ColLetters) : ColLetters[i] = l

\* Cell values.  Literal numbers are kept in hundredths (1 is 100, the rate
\* 0.12 is 12); "line" is "={col}{r1}*{num}" with num a price in cents;
\* "total" is "=SUM({col}{r1}:{col}{r2})*(1+{col}{r3})".
NoValue == [kind |-> "none", text |-> "", num |-> 0, col |-> "", r1 |-> 0, r2 |-> 0, r3 |-> 0]

Text(s) == [NoValue EXCEPT !.kind = "text", !.text = s]

Number(n) == [NoValue EXCEPT !.kind = "num", !.num = n]

LineFormula(l, r, price) ==
    [NoValue EXCEPT !.kind = "line", !.col = l, !.r1 = r, !.num = price]

TotalFormula(l, first, last, tax_row) ==
    [NoValue EXCEPT !.kind = "total", !.col = l, !.r1 = first, !.r2 = last, !.r3 = tax_row]

NoBorder == [top |-> FALSE, bottom |-> FALSE, left |-> FALSE, right |-> FALSE]

NewCell == [value |-> NoValue, fill |-> "", number_format |-> "General", border |-> NoBorder]

header_fill == "DAE9F8"

total_fill == "FCE4D6"

FORMAT_CURRENCY_USD_SIMPLE == "\"$\"#,##0.00"

FORMAT_PERCENTAGE_00 == "0.00%"

\* One statement of the handler on a cell: ws.cell(row, column, value=...),
\* .fill = ..., .number_format = ..., .border = ...
Op(what, r, c) ==
    [what |-> what, r |-> r, c |-> c, value |-> NoValue, fill |-> "",
     number_format |-> "", border |-> NoBorder]

SetValue(r, c, v) == [Op("value", r, c) EXCEPT !.value = v]

SetFill(r, c, f) == [Op("fill", r, c) EXCEPT !.fill = f]

SetFormat(r, c, f) == [Op("number_format", r, c) EXCEPT !.number_format = f]

SetBorder(r, c, b) == [Op("border", r, c) EXCEPT !.border = b]

\* The sheet a sequence of statements leaves: ws.cell(row, column) creates
\* the cell when the sheet has none there, and each attribute of a cell
\* holds what the last statement that set it wrote.
Last(ops, what, default) ==
    LET hits == {i \in 1..Len(ops) : ops[i].what = what}
    IN  IF hits = {} THEN default
        ELSE LET op == ops[CHOOSE i \in hits : \A j \in hits : j <= i]
             IN  CASE what = "value" -> op.value
                   [] what = "fill" -> op.fill
                   [] what = "number_format" -> op.number_format
                   [] what = "border" -> op.border

CellAfter(ops, c) ==
    LET here == SelectSeq(ops, LAMBDA op : op.c = c)
    IN  [value |-> Last(here, "value", NewCell.value),
         fill |-> Last(here, "fill", NewCell.fill),
         number_format |-> Last(here, "number_format", NewCell.number_format),
         border |-> Last(here, "border", NewCell.border)]

ApplyAll(ops) ==
    LET in_row == [r \in {ops[i].r : i \in 1..Len(ops)} |->
                      SelectSeq(ops, LAMBDA op : op.r = r)]
    IN  [at \in {<< ops[i].r, ops[i].c >> : i \in 1..Len(ops)} |->
            CellAfter(in_row[at[1]], at[2])]

RECURSIVE Flatten(_)
Flatten(ss) == IF ss = << >> THEN << >> ELSE Head(ss) \o Flatten(Tail(ss))

EmptySheet == [at \in {} |-> NewCell]

(***************************************************************************)
(* "Generate Excel File" handler                                           *)
(***************************************************************************)
start_row_offset == 1

start_col_offset == 1

xl_main_items(d) ==
    SelectSeq(d.rows, LAMBDA r : r.type = "item" /\ ~IsBlank(r.power_type))

xl_group_keys(d) ==
    Unique(Map(xl_main_items(d), LAMBDA r : << r.code, r.power_type >>))

xl_items_for_code(d, code, power_type) ==
    SelectSeq(d.rows, LAMBDA r :
        /\ EqVal(r.code, code)
        /\ (EqVal(r.power_type, power_type) \/ IsBlank(r.power_type))
        /\ r.type \in {"item", "subitem"})

\* the literal price written into a line formula
xl_price(items, supplier, desc) ==
    LET price_row == SelectSeq(items, LAMBDA r :
                         EqVal(r.supplier, supplier) /\ EqVal(r.description, desc))
    IN  IF price_row # << >> THEN price_row[1].price ELSE 0

xl_extra_rows(items) ==
    IF \E i \in 1..Len(items) : items[i].type = "subitem" THEN 0 ELSE 2


\* a tax row computed without the row offset
xl_tax_row_no_offset(data_row, n_desc, extra_rows) == data_row + n_desc + extra_rows

xl_tax_row(data_row, n_desc, extra_rows) ==
    data_row + n_desc + extra_rows + start_row_offset

xl_total_row(tax_row) == tax_row + 1

xl_first_item_row(data_row) == data_row + start_row_offset


\* a SUM range that runs down to the tax row
xl_last_item_row_tax(tax_row) == tax_row

xl_last_item_row(tax_row) == tax_row - 1


\* a gap one row shorter
xl_next_row_short(total_row) == total_row + 2

\* current_row for the group after the one whose total row is total_row
xl_next_row(total_row) == total_row + 3


\* the fill put on the tax row's cell instead of the total row's
xl_total_ops_fill_tax(total_row, col_idx, first_item_row, last_item_row, tax_row) ==
    << SetValue(total_row, col_idx,
                TotalFormula(get_column_letter(col_idx), first_item_row,
                             last_item_row, tax_row)),
       SetFormat(total_row, col_idx, FORMAT_CURRENCY_USD_SIMPLE),
       SetFill(tax_row, col_idx, total_fill) >>

\* the supplier cells of the total row: formula, number format, fill
xl_total_ops(total_row, col_idx, first_item_row, last_item_row, tax_row) ==
    << SetValue(total_row, col_idx,
                TotalFormula(get_column_letter(col_idx), first_item_row,
                             last_item_row, tax_row)),
       SetFormat(total_row, col_idx, FORMAT_CURRENCY_USD_SIMPLE),
       SetFill(total_row, col_idx, total_fill) >>

\* one item line: quantity, description, one formula per supplier
xl_line_ops(items, suppliers, desc, row) ==
    << SetValue(row, 4 + start_col_offset, Number(100)),
       SetValue(row, 5 + start_col_offset, Text(desc)) >>
    \o Flatten([i \in 1..Len(suppliers) |->
         << SetValue(row, 6 + (i - 1) + start_col_offset,
                     LineFormula(get_column_letter(4 + start_col_offset), row,
                                 xl_price(items, suppliers[i], desc))),
            SetFormat(row, 6 + (i - 1) + start_col_offset,
                      FORMAT_CURRENCY_USD_SIMPLE) >>])

\* the border loop over the block's rectangle
xl_border_ops(first_row, last_row, first_col, last_col) ==
    Flatten([k \in 1..(last_row - first_row + 1) |->
        [j \in 1..(last_col - first_col + 1) |->
            SetBorder(first_row + k - 1, first_col + j - 1,
                      [top |-> k = 1,
                       bottom |-> first_row + k - 1 = last_row,
                       left |-> j = 1,
                       right |-> first_col + j - 1 = last_col])]])

\* one pass of the loop body for the group (code, power_type), started with
\* current_row; tax is the tax percentage (tax_rate in hundredths)
xl_block(d, code, power_type, tax, current_row) ==
    LET items == xl_items_for_code(d, code, power_type)
        suppliers == Unique(Map(items, LAMBDA r : r.supplier))
        brand == SelectSeq(items, LAMBDA r : r.type = "item")[1].brand
        descriptions == Unique(Map(items, LAMBDA r : r.description))
        n_sup == Len(suppliers)
        start_row == current_row
        data_row == start_row + 1
        head_row == start_row + start_row_offset
        last_header_col == 5 + n_sup + start_col_offset
        tax_row == xl_tax_row(data_row, Len(descriptions), xl_extra_rows(items))
        total_row == xl_total_row(tax_row)
        first_item_row == xl_first_item_row(data_row)
        last_item_row == xl_last_item_row(tax_row)
        header ==
            << SetValue(head_row, 1 + start_col_offset, Text("Details")),
               SetValue(head_row, 3 + start_col_offset, Text("Image")),
               SetValue(head_row, 4 + start_col_offset, Text("QTY")),
               SetValue(head_row, 5 + start_col_offset, Text("Items")) >>
            \o [i \in 1..n_sup |->
                   SetValue(head_row, 6 + (i - 1) + start_col_offset, Text(suppliers[i]))]
            \o [j \in 1..(last_header_col - start_col_offset) |->
                   SetFill(head_row, j + start_col_offset, header_fill)]
        identity ==
            << SetValue(data_row + start_row_offset, 1 + start_col_offset, Text("Brand")),
               SetValue(data_row + start_row_offset, 2 + start_col_offset, Text(brand)),
               SetValue(data_row + 1 + start_row_offset, 1 + start_col_offset, Text("Code")),
               SetValue(data_row + 1 + start_row_offset, 2 + start_col_offset, Text(code)),
               SetValue(data_row + 2 + start_row_offset, 1 + start_col_offset,
                        Text("Power Type")),
               SetValue(data_row + 2 + start_row_offset, 2 + start_col_offset,
                        Text(power_type)) >>
        lines ==
            Flatten([i_desc \in 1..Len(descriptions) |->
                xl_line_ops(items, suppliers, descriptions[i_desc],
                            data_row + (i_desc - 1) + start_row_offset)])
        taxes ==
            << SetValue(tax_row, 5 + start_col_offset, Text("Tax")) >>
            \o Flatten([i \in 1..n_sup |->
                 << SetValue(tax_row, 6 + (i - 1) + start_col_offset, Number(tax)),
                    SetFormat(tax_row, 6 + (i - 1) + start_col_offset,
                              FORMAT_PERCENTAGE_00) >>])
        totals ==
            << SetValue(total_row, 5 + start_col_offset, Text("Total")),
               SetFill(total_row, 5 + start_col_offset, total_fill) >>
            \o Flatten([i \in 1..n_sup |->
                 xl_total_ops(total_row, 6 + (i - 1) + start_col_offset,
                              first_item_row, last_item_row, tax_row)])
        borders ==
            xl_border_ops(start_row + start_row_offset, total_row,
                          1 + start_col_offset, 5 + n_sup + start_col_offset)
    IN  [code |-> code, power_type |-> power_type, items |-> items,
         suppliers |-> suppliers, descriptions |-> descriptions,
         ops |-> header \o identity \o lines \o taxes \o totals \o borders,
         total_row |-> total_row]

RECURSIVE xl_blocks(_, _, _, _)
\* the loop over the groups, current_row carried from one pass to the next
xl_blocks(d, keys, tax, current_row) ==
    IF keys = << >> THEN << >>
    ELSE LET b == xl_block(d, keys[1][1], keys[1][2], tax, current_row)
         IN  << b >> \o xl_blocks(d, Tail(keys), tax, xl_next_row(b.total_row))

\* the exception the handler raises on d, "" when it raises none
xl_raises(d) ==
    IF d.kind = "None" THEN "TypeError"
    ELSE IF ~({"type", "Power Type", "code"} \subseteq d.columns) THEN "KeyError"
    ELSE IF xl_group_keys(d) = << >> THEN ""
    ELSE IF ~({"supplier", "brand", "description", "price"} \subseteq d.columns)
         THEN "KeyError"
    ELSE IF \E i \in 1..Len(xl_group_keys(d)) :
                SelectSeq(xl_items_for_code(d, xl_group_keys(d)[i][1],
                                            xl_group_keys(d)[i][2]),
                          LAMBDA r : r.type = "item") = << >>
         THEN "IndexError"
    ELSE ""

\* the blocks of the sheet the handler builds from d (current_row = 1)
generate_blocks(d, tax) ==
    IF xl_raises(d) # "" THEN << >> ELSE xl_blocks(d, xl_group_keys(d), tax, 1)

\* the sheet: every statement of every pass, in order
generate_sheet(d, tax) ==
    ApplyAll(Flatten(Map(generate_blocks(d, tax), LAMBDA b : b.ops)))

(***************************************************************************)
(* Loading: Series.astype(str).str.strip() on the text columns             *)
(***************************************************************************)
\* str.strip() on the spellings that occur in the modelled files
str_strip(v) == CASE v = " A" -> "A" [] v = "A " -> "A" [] OTHER -> v

\* astype(str) turns a missing value into the text "nan"
astype_str(v) == IF v = NaN THEN "nan" ELSE v

clean(v) == str_strip(astype_str(v))

\* the loop "for col in [...]: if col in df.columns: df[col] = ..."
normalise(d) ==
    [d EXCEPT !.rows = Map(d.rows, LAMBDA r :
        [type |-> IF "type" \in d.columns THEN clean(r.type) ELSE r.type,
         supplier |-> IF "supplier" \in d.columns THEN clean(r.supplier) ELSE r.supplier,
         brand |-> IF "brand" \in d.columns THEN clean(r.brand) ELSE r.brand,
         code |-> IF "code" \in d.columns THEN clean(r.code) ELSE r.code,
         description |-> IF "description" \in d.columns THEN clean(r.description)
                         ELSE r.description,
         power_type |-> IF "Power Type" \in d.columns THEN clean(r.power_type)
                        ELSE r.power_type,
         price |-> r.price])]

(***************************************************************************)
(* Bounds and input sets                                                   *)
(***************************************************************************)
MaxPdfs == 4            \* files the PDF uploader may hold
MaxRows == 2            \* rows of a table given to the two renderers
MaxKeyRows == 3         \* rows of a table in the grouping study
MaxLayoutRows == 3      \* rows of a table in the sheet layout study

default_tax == 12       \* st.number_input(..., value=12.0)

TaxValues == {0, default_tax}

TablesUpTo(Rows, n) ==
    {DataFrame(RequiredColumns, rows) : rows \in UNION {[1..k -> Rows] : k \in 0..n}}

\* session study: files and responses of at most one row
ColumnSets == {RequiredColumns, RequiredColumns \ {"type"}, RequiredColumns \ {"price"}}

FileRows == {MkRow("item", "S1", "b1", "c1", "d1", p, 1) : p \in {"A", " A", NaN}}

Files == {DataFrame(cols, rows) : cols \in ColumnSets,
                                  rows \in {<< >>} \cup {<< r >> : r \in FileRows}}

\* what the user can turn the displayed table d into
EditRows == {MkRow("item", "S1", "b1", "c1", "d1", p, 1) : p \in {"A", "nan", NaN}}

Edits(d) == {DataFrame(d.columns, rows) :
                rows \in {<< >>} \cup {<< r >> : r \in EditRows}} \ {d}

\* what requests.post can end in
Responses == {[outcome |-> "timeout", table |-> NoneDf],
              [outcome |-> "status_500", table |-> NoneDf]}
             \cup {[outcome |-> "status_200", table |-> f] : f \in Files}

\* renderer study: one code, two suppliers, two descriptions, two prices
ReportRows ==
    {MkRow(tp[1], s, "b1", "c1", d, tp[2], pr) :
        tp \in {<< "item", "A" >>, << "item", "B" >>, << "subitem", "" >>},
        s \in {"S1", "S2"}, d \in {"d1", "d2"}, pr \in {1, 2}}

\* grouping study: blank and non-blank Power Type under one code, rows of
\* another type, rows of another code
KeyRows ==
    {MkRow(t, "S1", "b1", "c1", "d1", p, 1) :
        t \in {"item", "subitem"}, p \in {"", "A", "B"}}
    \cup {MkRow("subitem", "S1", "b1", "c1", "d1", NaN, 1),
          MkRow("other", "S1", "b1", "c1", "d1", "A", 1),
          MkRow("other", "S1", "b1", "c1", "d1", "", 1),
          MkRow("item", "S1", "b1", "c2", "d1", "A", 1),
          MkRow("item", "S1", "b1", "c2", "d1", "", 1),
          MkRow("subitem", "S1", "b1", "c2", "d1", "", 1)}

\* layout study: groups of one or two suppliers and descriptions, with and
\* without subitem rows
LayoutRows ==
    {MkRow(tp[1], s, "b1", "c1", d, tp[2], 1) :
        tp \in {<< "item", "A" >>, << "item", "B" >>, << "subitem", "" >>},
        s \in {"S1", "S2"}, d \in {"d1", "d2"}}

(***************************************************************************)
(* The script run                                                          *)
(***************************************************************************)
NoPreview == [status |-> "none", tables |-> << >>]

\* what every run starts from: the uploader and control values are kept,
\* everything a run displays is rebuilt
StartRun(process, generate, edit, rerun) ==
    /\ pc' = "pdf"
    /\ process_clicked' = process
    /\ generate_clicked' = generate
    /\ pending_edit' = edit
    /\ requests_sent' = 0
    /\ run_result' = "running"
    /\ after_extraction' = rerun
    /\ df_at_start' = [df |-> df, job_flags |-> job_flags]
    /\ editor_shown' = NoneDf
    /\ preview' = NoPreview
    /\ ws' = EmptySheet
    /\ download' = FALSE

\* widgets the last run rendered (a run that stops early renders no more)
ManualRendered == run_result \notin {"stopped", "post_exception"}

EditorRendered == ManualRendered /\ editor_shown.kind = "DataFrame"

GenerateRendered == run_result \in {"ok", "export_exception"}

UploadPdfs ==
    /\ pc = "idle"
    /\ \E n \in 0..MaxPdfs : n # pdfs /\ pdfs' = n
    /\ StartRun(FALSE, FALSE, NoneDf, FALSE)
    /\ UNCHANGED << df, job_flags, uploaded_file, tax_percent, extracted >>


\* a check that lets more than three files through
pdf_count_at_least(n) == n # 0 /\ n >= 3

\* "if pdfs and len(pdfs) == 3": the button exists, and the request is made
pdf_count_ok(n) == n # 0 /\ n = 3

ClickProcess ==
    /\ pc = "idle"
    /\ pdf_count_ok(pdfs)
    /\ StartRun(TRUE, FALSE, NoneDf, FALSE)
    /\ UNCHANGED << df, job_flags, pdfs, uploaded_file, tax_percent, extracted >>

UploadFile ==
    /\ pc = "idle"
    /\ ManualRendered
    /\ \E f \in Files \cup {NoneDf} : f # uploaded_file /\ uploaded_file' = f
    /\ StartRun(FALSE, FALSE, NoneDf, FALSE)
    /\ UNCHANGED << df, job_flags, pdfs, tax_percent, extracted >>

EditTable ==
    /\ pc = "idle"
    /\ EditorRendered
    /\ \E e \in Edits(df) : StartRun(FALSE, FALSE, e, FALSE)
    /\ UNCHANGED << df, job_flags, pdfs, uploaded_file, tax_percent, extracted >>

ChangeTax ==
    /\ pc = "idle"
    /\ ManualRendered
    /\ \E t \in TaxValues : t # tax_percent /\ tax_percent' = t
    /\ StartRun(FALSE, FALSE, NoneDf, FALSE)
    /\ UNCHANGED << df, job_flags, pdfs, uploaded_file, extracted >>

ClickGenerate ==
    /\ pc = "idle"
    /\ GenerateRendered
    /\ StartRun(FALSE, TRUE, NoneDf, FALSE)
    /\ UNCHANGED << df, job_flags, pdfs, uploaded_file, tax_percent, extracted >>

\* the run ends here: nothing below this point of the script is executed
Halt(result) ==
    /\ pc' = "idle"
    /\ run_result' = result


\* an error report that is not followed by st.stop()
st_error_only ==
    /\ pc' = "manual"
    /\ run_result' = "stopped"

\* st.error(...); st.stop()
st_stop == Halt("stopped")

\* the PDF section: warning, button, request, hand-off, st.rerun()
PdfBlock ==
    /\ pc = "pdf"
    /\ \E response \in Responses :
        IF pdf_count_ok(pdfs) /\ process_clicked
        THEN /\ requests_sent' = requests_sent + 1
             /\ CASE response.outcome = "timeout" ->
                        \* requests.post raises: the run ends with the exception
                        /\ Halt("post_exception")
                        /\ UNCHANGED << df, job_flags, extracted >>
                  [] response.outcome = "status_500" ->
                        /\ st_stop
                        /\ UNCHANGED << df, job_flags, extracted >>
                  [] response.outcome = "status_200" ->
                        /\ df' = normalise(response.table)
                        /\ job_flags' = "cleared"
                        /\ extracted' = normalise(response.table)
                        /\ pc' = "rerun"
                        /\ run_result' = "rerun"
        ELSE /\ pc' = "manual"
             /\ UNCHANGED << df, job_flags, extracted, requests_sent, run_result >>
    /\ UNCHANGED << pdfs, uploaded_file, tax_percent, process_clicked, generate_clicked,
                    pending_edit, after_extraction, df_at_start, editor_shown,
                    preview, ws, download >>

\* st.rerun(): the script starts again at once; the uploaders keep their
\* files, the button that started the extraction is False
Rerun ==
    /\ pc = "rerun"
    /\ StartRun(FALSE, FALSE, NoneDf, TRUE)
    /\ UNCHANGED << df, job_flags, pdfs, uploaded_file, tax_percent, extracted >>

\* the manual override section
ManualBlock ==
    /\ pc = "manual"
    /\ IF uploaded_file.kind # "None"
       THEN /\ df' = normalise(uploaded_file)
            /\ job_flags' = "cleared"
       ELSE UNCHANGED << df, job_flags >>
    /\ pc' = "editor"
    /\ UNCHANGED << pdfs, uploaded_file, tax_percent, process_clicked, generate_clicked,
                    pending_edit, requests_sent, run_result, after_extraction,
                    extracted, df_at_start, editor_shown, preview, ws, download >>

\* the editor section: the editor displays df and returns it with the edit
EditorBlock ==
    /\ pc = "editor"
    /\ IF df.kind # "None"
       THEN /\ editor_shown' = df
            /\ df' = IF pending_edit.kind # "None"
                     THEN [pending_edit EXCEPT !.columns = df.columns]
                     ELSE df
       ELSE UNCHANGED << df, editor_shown >>
    /\ pc' = "preview"
    /\ UNCHANGED << job_flags, pdfs, uploaded_file, tax_percent, process_clicked,
                    generate_clicked, pending_edit, requests_sent, run_result,
                    after_extraction, extracted, df_at_start, preview, ws, download >>

\* the preview section
PreviewBlock ==
    /\ pc = "preview"
    /\ IF df.kind # "None" /\ ~IsEmpty(df)
       THEN LET html == generate_html_table(df, tax_percent)
            IN  IF html.raised # ""
                THEN /\ preview' = [status |-> "error", tables |-> << >>]
                     /\ Halt("preview_exception")
                ELSE /\ preview' = [status |-> "html", tables |-> html.tables]
                     /\ pc' = "export"
                     /\ UNCHANGED run_result
       ELSE /\ preview' = [status |-> "placeholder", tables |-> << >>]
            /\ pc' = "export"
            /\ UNCHANGED run_result
    /\ UNCHANGED << df, job_flags, pdfs, uploaded_file, tax_percent, process_clicked,
                    generate_clicked, pending_edit, requests_sent, after_extraction,
                    extracted, df_at_start, editor_shown, ws, download >>

\* the export section
ExportBlock ==
    /\ pc = "export"
    /\ IF generate_clicked
       THEN IF xl_raises(df) # ""
            THEN /\ Halt("export_exception")
                 /\ UNCHANGED << ws, download >>
            ELSE /\ ws' = generate_sheet(df, tax_percent)
                 /\ download' = TRUE
                 /\ Halt("ok")
       ELSE /\ Halt("ok")
            /\ UNCHANGED << ws, download >>
    /\ UNCHANGED << df, job_flags, pdfs, uploaded_file, tax_percent, process_clicked,
                    generate_clicked, pending_edit, requests_sent, after_extraction,
                    extracted, df_at_start, editor_shown, preview >>

\* the session once the first run has ended: no data, default controls
Init ==
    /\ df = NoneDf
    /\ job_flags = "unset"
    /\ pdfs = 0
    /\ uploaded_file = NoneDf
    /\ tax_percent = default_tax
    /\ pc = "idle"
    /\ process_clicked = FALSE
    /\ generate_clicked = FALSE
    /\ pending_edit = NoneDf
    /\ requests_sent = 0
    /\ run_result = "ok"
    /\ after_extraction = FALSE
    /\ extracted = NoneDf
    /\ df_at_start = [df |-> NoneDf, job_flags |-> "unset"]
    /\ editor_shown = NoneDf
    /\ preview = [status |-> "placeholder", tables |-> << >>]
    /\ ws = EmptySheet
    /\ download = FALSE

Next ==
    \/ UploadPdfs
    \/ ClickProcess
    \/ UploadFile
    \/ EditTable
    \/ ChangeTax
    \/ ClickGenerate
    \/ PdfBlock
    \/ Rerun
    \/ ManualBlock
    \/ EditorBlock
    \/ PreviewBlock
    \/ ExportBlock

Spec == Init /\ [][Next]_vars

\* A run's preview and export sections on a given table: the session holds
\* the table, the run has reached the preview and Generate was clicked.
RenderInit(Tables, Taxes) ==
    /\ df \in Tables
    /\ tax_percent \in Taxes
    /\ pc = "preview"
    /\ generate_clicked = TRUE
    /\ job_flags = "cleared"
    /\ pdfs = 0
    /\ uploaded_file = NoneDf
    /\ process_clicked = FALSE
    /\ pending_edit = NoneDf
    /\ requests_sent = 0
    /\ run_result = "running"
    /\ after_extraction = FALSE
    /\ extracted = NoneDf
    /\ df_at_start = [df |-> df, job_flags |-> "cleared"]
    /\ editor_shown = df
    /\ preview = NoPreview
    /\ ws = EmptySheet
    /\ download = FALSE

RenderNext == PreviewBlock \/ ExportBlock

InitReport == RenderInit(TablesUpTo(ReportRows, MaxRows), TaxValues)

SpecReport == InitReport /\ [][RenderNext]_vars

InitKeys == RenderInit(TablesUpTo(KeyRows, MaxKeyRows), {default_tax})

SpecKeys == InitKeys /\ [][RenderNext]_vars

InitLayout == RenderInit(TablesUpTo(LayoutRows, MaxLayoutRows), {default_tax})

SpecLayout == InitLayout /\ [][RenderNext]_vars

(***************************************************************************)
(* Properties                                                              *)
(***************************************************************************)
Rendered == preview.status = "html"

Exported == download

Indices(sq) == 1..Len(sq)

\* the blocks of the sheet held in ws
Blocks == generate_blocks(df, tax_percent)

\* ---- grouping --------------------------------------------------------
\* the keys the specification asks for
WantedKeys(d) ==
    {<< d.rows[i].code, d.rows[i].power_type >> :
        i \in {j \in Indices(d.rows) :
                  d.rows[j].type = "item" /\ d.rows[j].power_type \notin {"", NaN}}}

\* the positions of the rows the specification puts in group k
WantedRows(d, k) ==
    {i \in Indices(d.rows) :
        /\ d.rows[i].type \in {"item", "subitem"}
        /\ d.rows[i].code = k[1]
        /\ d.rows[i].power_type \in {k[2], "", NaN}}

\* groups is a sequence of records with code, power_type and items
GroupsAsWanted(d, groups) ==
    /\ {<< groups[g].code, groups[g].power_type >> : g \in Indices(groups)}
           = WantedKeys(d)
    /\ Len(groups) = Cardinality(WantedKeys(d))
    /\ \A g \in Indices(groups) :
        LET k == << groups[g].code, groups[g].power_type >>
        IN  /\ Len(groups[g].items) = Cardinality(WantedRows(d, k))
            /\ Range(groups[g].items) = {d.rows[i] : i \in WantedRows(d, k)}
            \* never two different non-blank Power Types in one group
            /\ \A r \in Range(groups[g].items) :
                   r.power_type \in {k[2], "", NaN}
    \* a blank row is in every group of its code
    /\ \A i \in Indices(d.rows), g \in Indices(groups) :
           (/\ d.rows[i].type \in {"item", "subitem"}
            /\ d.rows[i].power_type \in {"", NaN}
            /\ d.rows[i].code = groups[g].code)
           => d.rows[i] \in Range(groups[g].items)

\* C1: in the preview and in the export, the groups are the distinct
\* (code, Power Type) pairs of the item rows with a non-blank Power Type, and
\* a group's rows are the item/subitem rows of its code whose Power Type is
\* the group's or blank; rows with different non-blank Power Types never
\* share a group, a blank row is in every group of its code.
C1_GroupingKeyScope ==
    /\ Rendered => GroupsAsWanted(df, preview.tables)
    /\ Exported => GroupsAsWanted(df, Blocks)

\* two groups of one code, and a blank row that is in both
C1_Witness ==
    /\ Rendered
    /\ Exported
    /\ \E g, h \in Indices(preview.tables) :
        /\ g # h
        /\ preview.tables[g].code = preview.tables[h].code
        /\ preview.tables[g].power_type # preview.tables[h].power_type
        /\ \E r \in Range(preview.tables[g].items) \cap Range(preview.tables[h].items) :
               r.power_type = ""

\* ---- totals of the preview -----------------------------------------
\* the supplier's price for a description: 0 without a row, else the first
FirstPrice(rows, s, desc) ==
    LET hits == {i \in Indices(rows) :
                    rows[i].supplier = s /\ rows[i].description = desc}
    IN  IF hits = {} THEN 0
        ELSE rows[CHOOSE i \in hits : \A j \in hits : i <= j].price

RECURSIVE Subtotal(_, _, _)
\* sum of the supplier's prices over the set S of descriptions
Subtotal(S, rows, s) ==
    IF S = {} THEN 0
    ELSE LET x == CHOOSE y \in S : TRUE
         IN  FirstPrice(rows, s, x) + Subtotal(S \ {x}, rows, s)

SuppliersOf(t) == SubSeq(t.header, 5, Len(t.header))

\* C2: in the preview, the amount in a group's total row for a supplier is
\* the sum, over the distinct descriptions of the group, of the supplier's
\* price (0 when it has no row, the first row when it has several), times
\* (1 + taxPercent/100), shown with two decimals.
C2_PreviewTotal ==
    Rendered =>
        \A g \in Indices(preview.tables) :
            LET t == preview.tables[g]
            IN  /\ Range(SuppliersOf(t)) = {r.supplier : r \in Range(t.items)}
                /\ Len(t.total) = Len(SuppliersOf(t))
                /\ \A i \in Indices(SuppliersOf(t)) :
                       t.total[i] =
                           Fmt2(Subtotal({r.description : r \in Range(t.items)},
                                         t.items, SuppliersOf(t)[i])
                                * (100 + tax_percent))

\* a supplier without a row for one of two descriptions, under a tax
C2_Witness ==
    /\ Rendered
    /\ tax_percent > 0
    /\ \E g \in Indices(preview.tables) :
        LET t == preview.tables[g]
        IN  /\ Len(t.lines) = 2
            /\ \E i \in Indices(SuppliersOf(t)) :
                /\ t.total[i] > 0
                /\ \E desc \in {r.description : r \in Range(t.items)} :
                       \A r \in Range(t.items) :
                           ~(r.supplier = SuppliersOf(t)[i] /\ r.description = desc)

\* ---- reading the sheet -----------------------------------------------
CellValue(w, r, c) == IF << r, c >> \in DOMAIN w THEN w[<< r, c >>].value ELSE NoValue

SheetRows(w) == {at[1] : at \in DOMAIN w}

SheetCols(w) == {at[2] : at \in DOMAIN w}

HeaderRows(w) == {r \in SheetRows(w) : CellValue(w, r, 2) = Text("Details")}

TaxRows(w) == {r \in SheetRows(w) : CellValue(w, r, 6) = Text("Tax")}

TotalRows(w) == {r \in SheetRows(w) : CellValue(w, r, 6) = Text("Total")}

\* the g-th header row from the top
NthHeader(w, g) ==
    CHOOSE h \in HeaderRows(w) : Cardinality({q \in HeaderRows(w) : q < h}) = g - 1

\* r lies in the block that the header row h opens
InBlockOf(w, h, r) == r >= h /\ \A q \in HeaderRows(w) : ~(h < q /\ q <= r)

TotalRowOf(w, h) == CHOOSE r \in TotalRows(w) : InBlockOf(w, h, r)

\* the supplier columns of the block: the header cells right of "Items"
SupplierCols(w, h) == {c \in SheetCols(w) : c > 6 /\ CellValue(w, h, c).kind = "text"}

SupplierCol(w, h, name) == CHOOSE c \in SupplierCols(w, h) : CellValue(w, h, c) = Text(name)

\* the item-line rows of the block: a quantity and a description
LineRows(w, h) ==
    {r \in SheetRows(w) : InBlockOf(w, h, r) /\ CellValue(w, r, 5).kind = "num"}

DescRow(w, h, desc) == CHOOSE r \in LineRows(w, h) : CellValue(w, r, 6) = Text(desc)

\* what a spreadsheet computes for a literal or a line formula, in 1/100
\* cent; text and empty cells count 0 (as they do inside SUM)
NumberOf(w, r, c) ==
    LET v == CellValue(w, r, c)
    IN  CASE v.kind = "num" -> v.num * 100
          [] v.kind = "line" ->
                LET q == CellValue(w, v.r1, column_index(v.col))
                IN  (IF q.kind = "num" THEN q.num ELSE 0) * v.num
          [] OTHER -> 0

RECURSIVE SumRows(_, _, _)
SumRows(w, rows, c) ==
    IF rows = {} THEN 0
    ELSE LET r == CHOOSE x \in rows : TRUE
         IN  NumberOf(w, r, c) + SumRows(w, rows \ {r}, c)

\* what a spreadsheet computes for =SUM(X{r1}:X{r2})*(1+X{r3}), in 1/100 cent
TotalOf(w, r, c) ==
    LET v == CellValue(w, r, c)
    IN  (SumRows(w, v.r1..v.r2, column_index(v.col))
         * (10000 + NumberOf(w, v.r3, column_index(v.col)))) \div 10000

\* C3: evaluating the workbook gives, for every group and supplier, the line
\* amounts and the total the preview shows (both to two decimals); the SUM
\* range of a total holds every item line of the group and nothing but that
\* group's line formulas (or empty cells), with or without subitem rows.
C3_WorkbookMatchesPreview ==
    (Rendered /\ Exported) =>
        /\ Cardinality(HeaderRows(ws)) = Len(preview.tables)
        /\ \A g \in Indices(preview.tables) :
            LET t == preview.tables[g]
                h == NthHeader(ws, g)
                tr == TotalRowOf(ws, h)
            IN  /\ Cardinality(SupplierCols(ws, h)) = Len(SuppliersOf(t))
                /\ Cardinality(LineRows(ws, h)) = Len(t.lines)
                /\ \A i \in Indices(SuppliersOf(t)) :
                    LET c == SupplierCol(ws, h, SuppliersOf(t)[i])
                        f == CellValue(ws, tr, c)
                    IN  /\ f.kind = "total"
                        /\ column_index(f.col) = c
                        /\ \A j \in Indices(t.lines) :
                            LET r == DescRow(ws, h, t.lines[j].desc)
                            IN  /\ Fmt2(NumberOf(ws, r, c)) = t.lines[j].cells[i]
                                /\ r \in f.r1..f.r2
                        /\ \A r \in f.r1..f.r2 :
                               \/ CellValue(ws, r, c).kind = "none"
                               \/ /\ CellValue(ws, r, c).kind = "line"
                                  /\ r \in LineRows(ws, h)
                        /\ Fmt2(TotalOf(ws, tr, c)) = t.total[i]

\* an exported group with a subitem row, two item lines and a taxed total
C3_Witness ==
    /\ Rendered
    /\ Exported
    /\ tax_percent > 0
    /\ \E g \in Indices(preview.tables) :
        LET t == preview.tables[g]
        IN  /\ \E r \in Range(t.items) : r.type = "subitem"
            /\ Len(t.lines) = 2
            /\ \E i \in Indices(t.total) :
                   /\ t.total[i] > 0
                   /\ TotalOf(ws, TotalRowOf(ws, NthHeader(ws, g)),
                              SupplierCol(ws, NthHeader(ws, g), SuppliersOf(t)[i])) > 0

\* ---- layout of the sheet ---------------------------------------------
\* the header row that follows row r
NextHeader(w, r) == CHOOSE h \in HeaderRows(w) : h > r /\ \A q \in HeaderRows(w) : q > r => h <= q

\* the rows strictly between a total row and the next header row
GapRows(w, r) == (r + 1)..(NextHeader(w, r) - 1)

RowIsBlank(w, r) == \A at \in DOMAIN w : at[1] = r => w[at] = NewCell

\* the total rows that have a group below them
TotalsWithSuccessor(w) == {r \in TotalRows(w) : \E h \in HeaderRows(w) : h > r}

\* C8 as stated: exactly 2 blank rows lie between a group's total row and
\* the header row of the next group.
C8_GapIsTwoRows ==
    Exported =>
        \A r \in TotalsWithSuccessor(ws) :
            /\ Cardinality(GapRows(ws, r)) = 2
            /\ \A q \in GapRows(ws, r) : RowIsBlank(ws, q)

\* C8 amended: exactly 3 blank rows lie between a group's total row and the
\* header row of the next group, whatever the two groups hold.
C8_GapIsThreeRows ==
    Exported =>
        /\ Cardinality(TotalRows(ws)) = Cardinality(HeaderRows(ws))
        /\ \A r \in TotalsWithSuccessor(ws) :
            /\ Cardinality(GapRows(ws, r)) = 3
            /\ \A q \in GapRows(ws, r) : RowIsBlank(ws, q)

\* two groups on the sheet, the upper one with a subitem row
C8_Witness ==
    /\ Exported
    /\ Len(Blocks) = 2
    /\ \E r \in Range(Blocks[1].items) : r.type = "subitem"
    /\ TotalsWithSuccessor(ws) # {}

\* the cells a pass of the loop gives a value, a fill or a number format
Written(b) == {<< b.ops[i].r, b.ops[i].c >> : i \in {j \in Indices(b.ops) : b.ops[j].what # "border"}}

\* the cells a pass of the loop gives a border
Bordered(b) == {<< b.ops[i].r, b.ops[i].c >> : i \in {j \in Indices(b.ops) : b.ops[j].what = "border"}}

RowsWriting(b, c, v) ==
    {b.ops[i].r : i \in {j \in Indices(b.ops) :
        b.ops[j].what = "value" /\ b.ops[j].c = c /\ b.ops[j].value = v}}

\* the rows where the pass writes a quantity
ItemLineRows(b) ==
    {b.ops[i].r : i \in {j \in Indices(b.ops) :
        b.ops[j].what = "value" /\ b.ops[j].c = 5 /\ b.ops[j].value.kind = "num"}}

\* header row .. total row by Details column .. last supplier column
Rectangle(b) ==
    {<< r, c >> : r \in (CHOOSE h \in RowsWriting(b, 2, Text("Details")) : TRUE)
                          ..(CHOOSE t \in RowsWriting(b, 6, Text("Total")) : TRUE),
                  c \in 2..(6 + Len(b.suppliers))}

\* C9: a group's bordered rectangle runs from its header row to its total
\* row and from the Details column to the last supplier column; it holds
\* every cell written for the group and no cell written for another group;
\* the item-line rows are neither the tax row nor the total row; the row
\* ranges of distinct groups are disjoint.
C9_BlockRectangle ==
    Exported =>
        LET bs == Blocks
            rect == [g \in Indices(bs) |-> Rectangle(bs[g])]
            written == [g \in Indices(bs) |-> Written(bs[g])]
            rows == [g \in Indices(bs) |-> {at[1] : at \in rect[g]}]
        IN  /\ DOMAIN ws = UNION {Bordered(bs[g]) : g \in Indices(bs)}
            /\ \A g \in Indices(bs) :
                LET b == bs[g]
                    tax_rows == RowsWriting(b, 6, Text("Tax"))
                    total_rows == RowsWriting(b, 6, Text("Total"))
                    line_rows == ItemLineRows(b)
                IN  /\ Cardinality(RowsWriting(b, 2, Text("Details"))) = 1
                    /\ Cardinality(total_rows) = 1
                    /\ Cardinality(tax_rows) = 1
                    /\ Bordered(b) = rect[g]
                    /\ written[g] \subseteq rect[g]
                    /\ Cardinality(line_rows) = Len(b.descriptions)
                    /\ line_rows \cap tax_rows = {}
                    /\ line_rows \cap total_rows = {}
                    /\ tax_rows # total_rows
                    /\ \A h \in Indices(bs) :
                           h # g =>
                               /\ written[h] \cap rect[g] = {}
                               /\ rows[h] \cap rows[g] = {}

\* two groups, one of them a single description with a subitem row (its
\* Power Type cell lies on its total row)
C9_Witness ==
    /\ Exported
    /\ Len(Blocks) = 2
    /\ \E g \in Indices(Blocks) :
        /\ Len(Blocks[g].descriptions) = 1
        /\ \E r \in Range(Blocks[g].items) : r.type = "subitem"
        /\ RowsWriting(Blocks[g], 2, Text("Power Type"))
               = RowsWriting(Blocks[g], 6, Text("Total"))

\* the header row of the block a row lies in
HeaderOf(w, r) == CHOOSE h \in HeaderRows(w) : InBlockOf(w, h, r)

\* C10: every supplier cell of every total row carries the total fill, and
\* no cell of a row that is not a total row carries it.
C10_TotalFill ==
    Exported =>
        LET bs == Blocks
            total_rows == TotalRows(ws)
        IN  /\ Cardinality(total_rows) = Len(bs)
            /\ \A r \in total_rows :
                LET cols == SupplierCols(ws, HeaderOf(ws, r))
                IN  /\ Cardinality(cols)
                           = Len(bs[Cardinality({q \in total_rows : q <= r})].suppliers)
                    /\ \A c \in cols :
                           /\ << r, c >> \in DOMAIN ws
                           /\ ws[<< r, c >>].fill = total_fill
            /\ \A at \in DOMAIN ws :
                   ws[at].fill = total_fill => at[1] \in total_rows

\* a total row with two supplier cells, in a sheet of two groups
C10_Witness ==
    /\ Exported
    /\ Cardinality(TotalRows(ws)) = 2
    /\ \E r \in TotalRows(ws) :
        /\ Cardinality(SupplierCols(ws, HeaderOf(ws, r))) = 2
        /\ \A c \in SupplierCols(ws, HeaderOf(ws, r)) : ws[<< r, c >>].fill = total_fill

\* ---- the session -----------------------------------------------------
ExtractionFailed == run_result \in {"stopped", "post_exception"}

\* C4: when the extraction request fails (a non-200 status or a timeout),
\* the run halts there with the error, and the session's dataset and job
\* flags are what they were when the run started.
C4_FailedExtractionKeepsDataset ==
    ExtractionFailed =>
        /\ pc = "idle"
        /\ requests_sent = 1
        /\ df = df_at_start.df
        /\ job_flags = df_at_start.job_flags
        /\ editor_shown = NoneDf
        /\ preview = NoPreview
        /\ ~download

\* a failed extraction while the session holds a dataset the user edited
C4_Witness ==
    /\ ExtractionFailed
    /\ df.kind = "DataFrame"
    /\ \E r \in Range(df.rows) : r.power_type = NaN
    /\ job_flags = "cleared"
    /\ uploaded_file.kind = "None"

\* C5 as stated: in the run that follows a successful extraction, the
\* dataset the editor and the preview work on is the extracted table,
\* whatever the other input controls hold.
C5_RerunShowsExtractedTable ==
    (after_extraction /\ pc \in {"preview", "export"}) =>
        /\ editor_shown = extracted
        /\ df = extracted

\* C6: a request is sent only in a run with exactly 3 uploaded PDFs whose
\* process button was clicked; in a run with any other number of files no
\* request is sent and the PDF section leaves the dataset and flags alone.
C6_RequestOnlyWithThreePdfs ==
    /\ requests_sent \in {0, 1}
    /\ requests_sent = 1 => (pdfs = 3 /\ process_clicked)
    /\ pdfs # 3 =>
        /\ requests_sent = 0
        /\ ~process_clicked
        /\ run_result \notin {"stopped", "post_exception", "rerun"}
        /\ pc = "manual" => (df = df_at_start.df /\ job_flags = df_at_start.job_flags)

\* a request has been sent and answered with a table
C6_Witness ==
    /\ requests_sent = 1
    /\ pdfs = 3
    /\ pc = "rerun"
    /\ df = extracted

Usable(d) == d.kind = "DataFrame" /\ ~IsEmpty(d) /\ RequiredColumns \subseteq d.columns

\* C7 as stated, for the export: the generate action offers no workbook
\* for download when the dataset is absent, empty or lacks a required
\* column.
C7_NoWorkbookWithoutData == download => Usable(df)

\* C7 as stated, for the preview: nothing is rendered from such a dataset
\* (a placeholder or an error is shown instead).
PreviewNeedsData == preview.status = "html" => Usable(df)

====
